---------------------------- MODULE Spec2Model ----------------------------
(***************************************************************************)
(* A model of the SM2 arithmetic core and key handling of the repository:  *)
(*   - the hex key codec           (src/src/sm2/key.rs, HexKey impls)      *)
(*   - the key generator           (src/src/sm2/key.rs, KeyGenerator)      *)
(*   - fixed-point multiplication  (src/src/sm2/p256/point.rs)             *)
(*   - Jacobian double / add       (src/src/sm2/p256/point.rs)             *)
(*   - one-time initialisation     (src/src/sm2/p256.rs, P256Elliptic)     *)
(*                                                                         *)
(* Each part has its own specification (SpecCodec, SpecKeyGen, SpecMul,    *)
(* SpecAdd, SpecOnce) over the variables of that part; the variables of    *)
(* the other parts are parked at a fixed value and never change.           *)
(***************************************************************************)
EXTENDS Integers, Sequences, FiniteSets, TLC

VARIABLES
    \* ---- key codec (key.rs) ----
    codec_pc,       \* "key": a key waits to be encoded; "text": a string waits
                    \* to be decoded; "done": decode has returned or panicked
    codec_kind,     \* "public" | "private": which HexKey impl is exercised
    key_in,         \* the key handed to encode, or NoKey for a raw string
    key_text,       \* the hex string (a sequence of one-character strings)
    decoded,        \* the outcome of decode
    \* ---- key generator (key.rs) ----
    kg_pc,          \* "init" | "generated"
    order_n,        \* elliptic.n of the builder's blueprint
    random_k,       \* the value elliptic.random() returned
    key_pair,       \* KeyPair(private, public)
    \* ---- fixed-point multiplication (point.rs, P256BasePoint::multiply) ----
    mul_pc,         \* "call" | "round" | "select" | "to_affine" | "done" | "crossed"
    scalar,         \* [u8; 32], little-endian (indices 0..31)
    round_i,        \* outer loop counter i
    round_j,        \* inner loop counter j (0 or 32)
    jacobian,       \* the accumulator
    n_is_infinity_mask,
    ops,            \* how many doublings, selections, additions, copies ran
    trail,          \* the selection steps taken so far, latest last
    mul_out,        \* what P256BasePoint::multiply returned
    var_out,        \* what P256AffinePoint::multiply returned
    \* ---- Jacobian addition (point.rs, P256JacobianPoint) ----
    add_pc,         \* "call" | "added"
    self_pt,        \* &self
    other_pt,       \* other
    add_out,        \* what add returned
    dbl_out,        \* what self.double() returns
    \* ---- one-time initialisation (p256.rs, P256Elliptic::init) ----
    INITIALIZER,    \* the Once: "Incomplete" | "Running" | "Complete"
    ELLIPTIC,       \* the static mut pointer: Null or a heap address
    heap,           \* boxed P256Elliptic values, by address
    thread_pc,      \* each thread's position inside init()
    returned,       \* each thread's returned clones, latest last
    closure_runs,   \* how many times the call_once closure has run
    null_deref,     \* TRUE once some thread has dereferenced a null ELLIPTIC
    \* ---- table selection (point.rs, select of both point types) ----
    sel_pc,         \* "call" | "done"
    sel_variant,    \* "affine" | "jacobian": whose select is called
    sel_index,      \* index
    sel_table,      \* table: words (affine) or 16 points (jacobian)
    sel_masks,      \* the mask computed for every candidate i
    sel_branches,   \* the outcome of every conditional branch run, in order
    sel_out,        \* the point select returned
    \* ---- wNAF recoding (point.rs, w_naf) ----
    naf_pc,         \* "call" | "done"
    naf_k,          \* scalar, as an integer
    naf_out,        \* what w_naf returned
    \* ---- SM4 in ECB mode (ecb.rs) ----
    ecb_pc,         \* "plain" | "cipher" | "done"
    ecb_key,        \* the key of CryptoMode::new
    plain,          \* the bytes handed to encrypt_bytes
    cipher,         \* what encrypt_bytes returned
    recovered       \* what decrypt_bytes returned

codecVars == <<codec_pc, codec_kind, key_in, key_text, decoded>>
keygenVars == <<kg_pc, order_n, random_k, key_pair>>
mulVars == <<mul_pc, scalar, round_i, round_j, jacobian, n_is_infinity_mask, ops, trail, mul_out, var_out>>
addVars == <<add_pc, self_pt, other_pt, add_out, dbl_out>>
onceVars == <<INITIALIZER, ELLIPTIC, heap, thread_pc, returned, closure_runs, null_deref>>
selVars == <<sel_pc, sel_variant, sel_index, sel_table, sel_masks, sel_branches, sel_out>>
nafVars == <<naf_pc, naf_k, naf_out>>
ecbVars == <<ecb_pc, ecb_key, plain, cipher, recovered>>
vars == <<codecVars, keygenVars, mulVars, addVars, onceVars, selVars, nafVars, ecbVars>>

\* The value of a variable that holds nothing (yet).
None == [kind |-> "none"]

(***************************************************************************)
(* PART 1.  BigUint, byte strings and hex strings                          *)
(*                                                                         *)
(* A BigUint is its big-endian byte sequence without leading zero bytes    *)
(* (zero is the empty sequence), which is how num-bigint normalises its    *)
(* digits.  A hex string is a sequence of one-character strings.           *)
(***************************************************************************)

\* ---- bounds of the codec inputs ----
MaxHead == 2        \* how many leading bytes of a sampled integer vary
MaxSkew == 1        \* raw strings are tried this far around the exact lengths

\* ---- program constants ----
CoordBytes == 32            \* bytes of a coordinate or a private scalar
PublicKeyBytes == 65        \* 0x04 || X || Y
PublicKeyHexLen == 130
PrivateKeyHexLen == 64

HexChars == <<"0", "1", "2", "3", "4", "5", "6", "7", "8", "9", "a", "b", "c", "d", "e", "f">>
UpperHexChars == <<"A", "B", "C", "D", "E", "F">>

\* The value of a hex digit, or -1 for any other character (the hex crate's
\* val() and char::to_digit(16) both accept either case).
HexVal(c) ==
    IF \E i \in 1..16 : HexChars[i] = c
    THEN (CHOOSE i \in 1..16 : HexChars[i] = c) - 1
    ELSE IF \E i \in 1..6 : UpperHexChars[i] = c
    THEN (CHOOSE i \in 1..6 : UpperHexChars[i] = c) + 9
    ELSE -1

\* hex::encode: two lower-case digits per byte, high nibble first.
hex_encode(bytes) ==
    [i \in 1..(2 * Len(bytes)) |->
        IF i % 2 = 1 THEN HexChars[(bytes[(i + 1) \div 2] \div 16) + 1]
                     ELSE HexChars[(bytes[i \div 2] % 16) + 1]]

\* hex::decode: Err on an odd length or on a character that is no hex digit.
hex_decode(s) ==
    IF Len(s) % 2 = 1 \/ (\E i \in 1..Len(s) : HexVal(s[i]) = -1)
    THEN [ok |-> FALSE, data |-> <<>>]
    ELSE [ok |-> TRUE,
          data |-> [i \in 1..(Len(s) \div 2) |-> 16 * HexVal(s[2 * i - 1]) + HexVal(s[2 * i])]]

\* The sequence without its leading zero bytes.
RECURSIVE StripLeadingZeros(_)
StripLeadingZeros(bytes) ==
    IF bytes # <<>> /\ bytes[1] = 0 THEN StripLeadingZeros(Tail(bytes)) ELSE bytes

\* BigUint::from_bytes_be
from_bytes_be(bytes) == StripLeadingZeros(bytes)

\* BigUint::to_bytes_be: zero is the single byte 0.
to_bytes_be(v) == IF v = <<>> THEN <<0>> ELSE v

\* BigUint::from_str_radix(s, 16) on a string of hex digits: Err on any other
\* character or on the empty string.
from_str_radix(s) ==
    IF s = <<>> \/ (\E i \in 1..Len(s) : HexVal(s[i]) = -1)
    THEN [ok |-> FALSE, data |-> <<>>]
    ELSE LET even == IF Len(s) % 2 = 1 THEN <<"0">> \o s ELSE s
         IN  [ok |-> TRUE, data |-> StripLeadingZeros(hex_decode(even).data)]

\* str::starts_with
starts_with(s, pat) == Len(s) >= Len(pat) /\ SubSeq(s, 1, Len(pat)) = pat

\* str::trim_start_matches: the prefix is removed as often as it matches.
RECURSIVE trim_start_matches(_, _)
trim_start_matches(s, pat) ==
    IF starts_with(s, pat)
    THEN trim_start_matches(SubSeq(s, Len(pat) + 1, Len(s)), pat)
    ELSE s

\* copy_slice(dst, src): zip stops at the shorter of the two.
copy_slice(dst, src) ==
    [i \in 1..Len(dst) |-> IF i <= Len(src) THEN src[i] ELSE dst[i]]

\* buf with copy_slice(&mut buf[from..to], src) applied (0-based, to exclusive).
CopyInto(buf, from, to, src) ==
    LET part == copy_slice(SubSeq(buf, from + 1, to), src)
    IN  [i \in 1..Len(buf) |-> IF i > from /\ i <= to THEN part[i - from] ELSE buf[i]]

\* &v[from..] (0-based).
SliceFrom(v, from) == SubSeq(v, from + 1, Len(v))

Zeros(n) == [i \in 1..n |-> 0]

(***************************************************************************)
(* PART 2.  The key codec: impl HexKey for PublicKey / PrivateKey          *)
(***************************************************************************)

Panic(what) == [status |-> "panic", error |-> what]

\* PublicKey::encode
PublicKey_encode(key) ==
    LET x == to_bytes_be(key.x)
        y == to_bytes_be(key.y)
        xl == Len(x)
        yl == Len(y)
        key0 == [Zeros(PublicKeyBytes) EXCEPT ![1] = 4]
        key1 == IF xl > CoordBytes THEN CopyInto(key0, 1, 33, SliceFrom(x, xl - CoordBytes))
                ELSE IF xl < CoordBytes THEN CopyInto(key0, 33 - xl, 33, x)
                ELSE CopyInto(key0, 1, 33, x)
        key2 == IF yl > CoordBytes THEN CopyInto(key1, 33, PublicKeyBytes, SliceFrom(y, yl - CoordBytes))
                ELSE IF yl < CoordBytes THEN CopyInto(key1, PublicKeyBytes - yl, PublicKeyBytes, y)
                ELSE CopyInto(key1, 33, PublicKeyBytes, y)
    IN  hex_encode(key2)

\* The guards with the prefix tested first.
PublicDecodeGuardsSwapped(key) ==
    IF ~starts_with(key, <<"0", "4">>) THEN "InvalidPrefix"
    ELSE IF Len(key) # PublicKeyHexLen THEN "InvalidLength"
    ELSE "pass"

\* The two guards of PublicKey::decode, in the order the code runs them.
PublicDecodeGuards(key) ==
    IF Len(key) # PublicKeyHexLen THEN "InvalidLength"
    ELSE IF ~starts_with(key, <<"0", "4">>) THEN "InvalidPrefix"
    ELSE "pass"

\* What PublicKey::decode strips from the front of the string before it
\* decodes the rest.
PublicDecodeBody(key) == trim_start_matches(key, <<"0", "4">>)

\* PublicKey::decode.  The slices key[..32] and key[32..] panic when the
\* decoded data is shorter than 32 bytes.
PublicKey_decode(key) ==
    LET guard == PublicDecodeGuards(key)
        body == hex_decode(PublicDecodeBody(key))
    IN  IF guard # "pass" THEN Panic(guard)
        ELSE IF ~body.ok THEN Panic("InvalidEncoding")
        ELSE IF Len(body.data) < CoordBytes THEN Panic("SliceIndex")
        ELSE [status |-> "ok", kind |-> "public",
              x |-> from_bytes_be(SubSeq(body.data, 1, CoordBytes)),
              y |-> from_bytes_be(SliceFrom(body.data, CoordBytes))]

\* The short scalar copied to the front of the buffer instead.
PrivatePadShortLeftAligned(key_bytes) ==
    CopyInto(Zeros(CoordBytes), 0, CoordBytes, key_bytes)

\* The bytes PrivateKey::encode hands to hex::encode when the scalar is
\* shorter than 32 bytes: right-aligned in a zeroed buffer.
PrivatePadShort(key_bytes) ==
    CopyInto(Zeros(CoordBytes), CoordBytes - Len(key_bytes), CoordBytes, key_bytes)

\* PrivateKey::encode
PrivateKey_encode(key) ==
    LET key_bytes == to_bytes_be(key.d)
        kl == Len(key_bytes)
        raw == IF kl > CoordBytes
               THEN CopyInto(Zeros(CoordBytes), 0, CoordBytes, SliceFrom(key_bytes, kl - CoordBytes))
               ELSE IF kl < CoordBytes THEN PrivatePadShort(key_bytes)
               ELSE key_bytes
    IN  hex_encode(raw)

\* PrivateKey::decode
PrivateKey_decode(key) ==
    IF Len(key) # PrivateKeyHexLen THEN Panic("InvalidLength")
    ELSE LET parsed == from_str_radix(key)
         IN  IF ~parsed.ok THEN Panic("InvalidEncoding")
             ELSE [status |-> "ok", kind |-> "private", d |-> parsed.data]

\* ---- the inputs of the codec ----

\* A byte that depends on its position only: the tail of a sampled integer.
Filler(i) == (i * 37 + 11) % 256

\* The leading bytes tried: 0x01 and 0x04 (the uncompressed-point tag).
LeadBytes == {1, 4}
Heads == UNION {[1..l -> LeadBytes] : l \in 1..MaxHead}

BigSample(head, len) ==
    [i \in 1..len |-> IF i <= Len(head) THEN head[i] ELSE Filler(i)]

\* Integers below 2^256: zero, one-byte values, values one byte short of a
\* full coordinate, and full 32-byte values.
SampleLens == {1, CoordBytes - 1, CoordBytes}
Coordinates == {<<>>} \cup {BigSample(h, l) : h \in Heads, l \in SampleLens}

\* One integer of 33 bytes, which encode truncates to its low 32 bytes.
Oversized == BigSample(<<1>>, CoordBytes + 1)

PublicKeys ==
    {[kind |-> "public", x |-> x, y |-> y] : x \in Coordinates \cup {Oversized}, y \in Coordinates}
PrivateKeys ==
    {[kind |-> "private", d |-> d] : d \in Coordinates \cup {Oversized}}

\* Raw strings handed to decode: a prefix followed by hex digits.
RawPrefixes == {<<>>, <<"0", "4">>, <<"0", "3">>, <<"4", "0">>, <<"0", "4", "0", "4">>, <<"0", "4", "g">>}
RawLens ==
    {0, 1, 2} \cup ((PrivateKeyHexLen - MaxSkew)..(PrivateKeyHexLen + MaxSkew))
              \cup ((PublicKeyHexLen - MaxSkew)..(PublicKeyHexLen + MaxSkew))
RawText(pfx, len) ==
    [i \in 1..len |-> IF i <= Len(pfx) THEN pfx[i] ELSE HexChars[(i % 16) + 1]]
RawStrings == {RawText(p, l) : p \in RawPrefixes, l \in RawLens}

(***************************************************************************)
(* PART 3.  u32 masks                                                      *)
(*                                                                         *)
(* A u32 is its 32 bits, least significant first (element b is bit b-1),   *)
(* so that wrapping arithmetic keeps its width.                            *)
(***************************************************************************)
WordBits == 32

\* The u32 of a small non-negative integer (below 2^31).
U32(x) == [b \in 1..WordBits |-> IF b = WordBits THEN 0 ELSE (x \div (2 ^ (b - 1))) % 2]
U32Zero == [b \in 1..WordBits |-> 0]
U32Max == [b \in 1..WordBits |-> 1]      \* u32::MAX, !(0 as u32)

BitAnd(a, b) == [k \in 1..WordBits |-> a[k] * b[k]]
BitOr(a, b) == [k \in 1..WordBits |-> IF a[k] + b[k] > 0 THEN 1 ELSE 0]
BitXor(a, b) == [k \in 1..WordBits |-> (a[k] + b[k]) % 2]
BitNot(a) == [k \in 1..WordBits |-> 1 - a[k]]

\* x.wrapping_sub(1): the lowest set bit and every bit below it are flipped
\* (all 32 when x is 0).
wrapping_sub_1(a) ==
    LET set == {k \in 1..WordBits : a[k] = 1}
        low == IF set = {} THEN WordBits ELSE CHOOSE k \in set : \A o \in set : k <= o
    IN  [k \in 1..WordBits |-> IF k <= low THEN 1 - a[k] ELSE a[k]]

\* x.wrapping_shr(n), also x >> n for n < 32
wrapping_shr(a, n) ==
    [k \in 1..WordBits |-> IF k + (n % WordBits) <= WordBits THEN a[k + (n % WordBits)] ELSE 0]

\* p256::mask(x): 0xffffffff for 0 < x <= 2^31, 0 for x = 0.
mask(x) == wrapping_sub_1(wrapping_shr(wrapping_sub_1(U32(x)), 31))

(***************************************************************************)
(* PART 4.  Points for the fixed-point multiplication                      *)
(*                                                                         *)
(* The field arithmetic (Payload) and the 256-bit table are not part of    *)
(* the sources at hand, so a point is held by the multiple of G it         *)
(* stands for: a bag of exponents e, one for every 2^e * G that was added  *)
(* in.  double shifts every exponent, add_affine_point joins two bags:     *)
(* this is exact arithmetic on multiples of G.  The values outside the     *)
(* curve that the code passes through are kept apart by their form:        *)
(*   "zero"      x = y = z = 0 (Payload::init() three times)               *)
(*   "origin_z1" x = y = 0, z = 1                                          *)
(*   "z0"        z = 0 with other x, y                                     *)
(*   "point"     a point m * G with z # 0 (z_one: z is P256FACTOR[1])      *)
(*   "garbage"   add_affine_point used outside its contract                *)
(***************************************************************************)
EmptyBag == <<>>
BagOfSet(S) == [e \in S |-> 1]
BagPlus(m1, m2) ==
    [e \in (DOMAIN m1) \cup (DOMAIN m2) |->
        (IF e \in DOMAIN m1 THEN m1[e] ELSE 0) + (IF e \in DOMAIN m2 THEN m2[e] ELSE 0)]
BagDouble(m) == [e \in {x + 1 : x \in DOMAIN m} |-> m[e - 1]]

Affine(m) == [kind |-> "affine", form |-> IF m = EmptyBag THEN "identity" ELSE "point", m |-> m]
AffineGarbage == [kind |-> "affine", form |-> "garbage", m |-> EmptyBag]
Jacobian(form, m, z_one) == [kind |-> "jacobian", form |-> form, m |-> m, z_one |-> z_one]
JacobianZero == Jacobian("zero", EmptyBag, FALSE)
JacobianGarbage == Jacobian("garbage", EmptyBag, FALSE)

\* P256JacobianPoint(affine.0, affine.1, P256FACTOR[1])
WithZOne(affine) ==
    IF affine.form = "point" THEN Jacobian("point", affine.m, TRUE)
    ELSE IF affine.form = "identity" THEN Jacobian("origin_z1", EmptyBag, TRUE)
    ELSE JacobianGarbage

\* The words of one table group: offset += 30 * 9.
GroupWords == 30 * 9

\* BASE_TABLE[offset..] entry i (1..15): the multiple of G that the table is
\* taken to hold, sum over the bits b of i of 2^(64 b + 32 g) for group
\* g = offset / 270.
TableEntry(offset, i) ==
    Affine(BagOfSet({64 * b + 32 * (offset \div GroupWords) : b \in {c \in 0..3 : (i \div (2 ^ c)) % 2 = 1}}))

\* The mask without its fold of bits 2 and 3 onto bits 0 and 1.
SelectMaskNoFold(i, index) ==
    LET m0 == BitXor(U32(i), U32(index))
        m2 == BitOr(m0, wrapping_shr(m0, 1))
        m3 == BitAnd(m2, U32(1))
    IN  IF m3 = U32Zero THEN U32Max ELSE wrapping_sub_1(m3)

\* The mask P256AffinePoint::select computes for candidate i.
SelectMask(i, index) ==
    LET m0 == BitXor(U32(i), U32(index))
        m1 == BitOr(m0, wrapping_shr(m0, 2))
        m2 == BitOr(m1, wrapping_shr(m1, 1))
        m3 == BitAnd(m2, U32(1))
    IN  IF m3 = U32Zero THEN U32Max ELSE wrapping_sub_1(m3)

\* P256AffinePoint::select(index, BASE_TABLE[offset..]): the words of every
\* candidate are and-ed with its mask and or-ed together.
select(index, offset) ==
    LET hits == {i \in 1..15 : SelectMask(i, index) = U32Max}
        partial == {i \in 1..15 : SelectMask(i, index) \notin {U32Zero, U32Max}}
    IN  IF partial # {} \/ Cardinality(hits) > 1 THEN AffineGarbage
        ELSE IF hits = {} THEN Affine(EmptyBag)
        ELSE TableEntry(offset, CHOOSE i \in hits : TRUE)

\* P256JacobianPoint::double on multiples of G.
double(p) ==
    CASE p.form = "point" -> Jacobian("point", BagDouble(p.m), FALSE)
      [] p.form = "zero" -> JacobianZero
      [] p.form \in {"origin_z1", "z0"} -> Jacobian("z0", EmptyBag, FALSE)
      [] OTHER -> JacobianGarbage

\* P256JacobianPoint::add_affine_point on multiples of G.  With z1 = 0 the
\* result has z = 0; with equal operands h = r = 0 and the result is all zero;
\* with the all-zero affine operand the result is no point.
add_affine_point(p, affine) ==
    CASE p.form = "zero" -> JacobianZero
      [] p.form = "z0" -> Jacobian("z0", EmptyBag, FALSE)
      [] p.form = "origin_z1" /\ affine.form = "identity" -> JacobianZero
      [] p.form = "point" /\ affine.form = "point" /\ p.m = affine.m -> JacobianZero
      [] p.form = "point" /\ affine.form = "point" /\ p.m # affine.m ->
            Jacobian("point", BagPlus(p.m, affine.m), FALSE)
      [] OTHER -> JacobianGarbage

\* P256JacobianPoint::copy_from_with_conditional: every limb is
\* self ^ (mask & (source ^ self)).
copy_from_with_conditional(self, source, m) ==
    IF m = U32Max THEN source
    ELSE IF m = U32Zero THEN self
    ELSE IF source = self THEN self
    ELSE JacobianGarbage

\* P256JacobianPoint::to_affine_point: z^-1 from the extended gcd, which is 0
\* for z = 0.
to_affine_point(p) ==
    CASE p.form = "point" -> Affine(p.m)
      [] p.form \in {"zero", "z0", "origin_z1"} -> Affine(EmptyBag)
      [] OTHER -> AffineGarbage

(***************************************************************************)
(* PART 5.  P256BasePoint::multiply                                        *)
(***************************************************************************)
ScalarBytes == 32
Rounds == 32

\* BigUint::to_bytes_le
to_bytes_le(v) == LET be == to_bytes_be(v) IN [i \in 1..Len(be) |-> be[Len(be) + 1 - i]]

\* The [u8; 32] that multiply fills from scalar.to_bytes_le(); bytes[i] = *v
\* is out of bounds from the 33rd byte on.
ScalarArray(k) ==
    LET le == to_bytes_le(k)
    IN  IF Len(le) > ScalarBytes THEN Panic("IndexOutOfBounds")
        ELSE [status |-> "ok", bytes |-> [i \in 1..ScalarBytes |-> IF i <= Len(le) THEN le[i] ELSE 0]]

\* bit_of_scalar(scalar, bit)
bit_of_scalar(bytes, bit) == (bytes[(bit \div 8) + 1] \div (2 ^ (bit % 8))) % 2

\* The index with bit3 read at the position of bit2.
SelectedIndexBit3Misplaced(bytes, i, j) ==
    bit_of_scalar(bytes, 31 - i + j) + 2 * bit_of_scalar(bytes, 95 - i + j)
        + 4 * bit_of_scalar(bytes, 159 - i + j) + 8 * bit_of_scalar(bytes, 159 - i + j)

\* idx = bit0 | (bit1 << 1) | (bit2 << 2) | (bit3 << 3)
SelectedIndex(bytes, i, j) ==
    bit_of_scalar(bytes, 31 - i + j) + 2 * bit_of_scalar(bytes, 95 - i + j)
        + 4 * bit_of_scalar(bytes, 159 - i + j) + 8 * bit_of_scalar(bytes, 223 - i + j)

\* A doubling in every round, the first included.
DoublesInRoundAlways(i) == TRUE

\* if i != 0 { jacobian = jacobian.double(); }
DoublesInRound(i) == i # 0

\* select and mask for every index there is, computed once.
SelectTable == [index \in 0..15 |-> [offset \in {0, GroupWords} |-> select(index, offset)]]
MaskTable == [index \in 0..15 |-> mask(index)]

NoOps == [doublings |-> 0, selections |-> 0, additions |-> 0, copies |-> 0]

\* The state of the loops: the accumulator, the mask, the operation counts
\* and the indices selected so far.
MulStart == [jacobian |-> JacobianZero, n_is_infinity_mask |-> U32Max, ops |-> NoOps, trail |-> <<>>]

\* The head of the outer loop body.
MulDouble(st, i) ==
    IF DoublesInRound(i)
    THEN [st EXCEPT !.jacobian = double(st.jacobian), !.ops.doublings = @ + 1]
    ELSE st

\* The pass with the sum copied in whenever the index is not 0, the first
\* time included.
MulSelectUnmasked(st, bytes, i, j) ==
    LET idx == SelectedIndex(bytes, i, j)
        offset == (j \div 32) * GroupWords
        affine == SelectTable[idx][offset]
        temp == add_affine_point(st.jacobian, affine)
        first == copy_from_with_conditional(st.jacobian, WithZOne(affine), st.n_is_infinity_mask)
        p_is_finite_mask == MaskTable[idx]
        second == copy_from_with_conditional(first, temp, p_is_finite_mask)
    IN  [jacobian |-> second,
         n_is_infinity_mask |-> BitAnd(st.n_is_infinity_mask, BitNot(p_is_finite_mask)),
         ops |-> [st.ops EXCEPT !.selections = @ + 1, !.additions = @ + 1, !.copies = @ + 2],
         trail |-> Append(st.trail, idx)]

\* One pass of the inner loop body, for the round i and the offset j.
MulSelect(st, bytes, i, j) ==
    LET idx == SelectedIndex(bytes, i, j)
        offset == (j \div 32) * GroupWords
        affine == SelectTable[idx][offset]
        temp == add_affine_point(st.jacobian, affine)
        first == copy_from_with_conditional(st.jacobian, WithZOne(affine), st.n_is_infinity_mask)
        p_is_finite_mask == MaskTable[idx]
        m == BitAnd(p_is_finite_mask, BitNot(st.n_is_infinity_mask))
        second == copy_from_with_conditional(first, temp, m)
    IN  [jacobian |-> second,
         n_is_infinity_mask |-> BitAnd(st.n_is_infinity_mask, BitNot(p_is_finite_mask)),
         ops |-> [st.ops EXCEPT !.selections = @ + 1, !.additions = @ + 1, !.copies = @ + 2],
         trail |-> Append(st.trail, idx)]

\* The whole of the two loops from round i on (each round works on the
\* accumulator the round before has left).
RECURSIVE MulRounds(_, _, _)
MulRounds(st, bytes, i) ==
    IF i >= Rounds \/ st.jacobian.kind # "jacobian" THEN st
    ELSE MulRounds(MulSelect(MulSelect(MulDouble(st, i), bytes, i, 0), bytes, i, 32), bytes, i + 1)

\* P256BasePoint::multiply as a function of its argument.
multiply(k) ==
    LET arr == ScalarArray(k)
    IN  IF arr.status = "panic" THEN arr
        ELSE to_affine_point(MulRounds(MulStart, arr.bytes, 0).jacobian)

(***************************************************************************)
(* PART 6.  w_naf and P256AffinePoint::multiply                            *)
(***************************************************************************)

\* The bits of a BigUint, least significant first, without leading zero
\* bits: its length is k.bits().
RECURSIVE StripHighZeros(_)
StripHighZeros(b) ==
    IF b # <<>> /\ b[Len(b)] = 0 THEN StripHighZeros(SubSeq(b, 1, Len(b) - 1)) ELSE b

BitsOf(k) ==
    LET le == to_bytes_le(k)
    IN  StripHighZeros([i \in 1..(8 * Len(le)) |-> (le[((i - 1) \div 8) + 1] \div (2 ^ ((i - 1) % 8))) % 2])

\* Bit number pos of the bit sequence b (0 above its length).
BitAt(b, pos) == IF pos + 1 <= Len(b) THEN b[pos + 1] ELSE 0

\* k & 31 after k >>= pos: a window of five bits.
LowFiveBits(b, pos) ==
    BitAt(b, pos) + 2 * BitAt(b, pos + 1) + 4 * BitAt(b, pos + 2) + 8 * BitAt(b, pos + 3)
        + 16 * BitAt(b, pos + 4)

\* k & 15 after k >>= pos.
LowNibble(b, pos) ==
    BitAt(b, pos) + 2 * BitAt(b, pos + 1) + 4 * BitAt(b, pos + 2) + 8 * BitAt(b, pos + 3)

\* The while loop of w_naf.  b is k as the loop has shifted it so far, bits
\* the bit length of the argument, naf the buffer (naf[i] of the code is
\* element i + 1).  The passes that only advance pos by one (the bit at pos
\* equals the carry) are taken together: the loop goes on at the first
\* position from pos on whose bit differs from the carry, or ends when there
\* is none up to bits.
RECURSIVE NafLoop(_, _, _, _, _, _)
NafLoop(b, bits, carry, length, pos, naf) ==
    LET differ == {q \in pos..bits : BitAt(b, q) # carry}
    IN  IF differ = {} THEN [status |-> "ok", naf |-> naf, length |-> length]
        ELSE LET at_pos == CHOOSE q \in differ : \A o \in differ : q <= o
                 shifted == SubSeq(b, at_pos + 1, Len(b))
                 raw == LowNibble(b, at_pos) + carry
                 next_carry == IF (raw \div 8) % 2 = 1 THEN 1 ELSE 0
                 digit == IF next_carry = 1 THEN raw - 16 ELSE raw
                 at == length + at_pos
             IN  IF at + 1 > Len(naf) THEN Panic("IndexOutOfBounds")
                 ELSE NafLoop(shifted, bits, next_carry, at, 4, [naf EXCEPT ![at + 1] = digit])

\* The sequence left as it is.
NotReversed(q) == q

\* A sequence back to front: Vec::reverse.
Reverse(q) == [i \in 1..Len(q) |-> q[Len(q) + 1 - i]]

\* w_naf(scalar)
w_naf(k) ==
    LET b == BitsOf(k)
        bits == Len(b)
        naf == [i \in 1..(bits + 1) |-> 0]
        run == NafLoop(b, bits, 0, 0, 0, naf)
    IN  IF b = <<>> THEN [status |-> "ok", digits |-> naf]
        ELSE IF run.status = "panic" THEN run
        ELSE [status |-> "ok",
              digits |-> Reverse(IF Len(run.naf) > run.length + 1
                                 THEN SubSeq(run.naf, 1, run.length + 1)
                                 ELSE run.naf)]

\* P256AffinePoint::multiply: the digits are computed and todo!() panics.
P256AffinePoint_multiply(point, k) ==
    LET digits == w_naf(k)
    IN  IF digits.status = "panic" THEN digits ELSE Panic("NotYetImplemented")

(***************************************************************************)
(* Parking: the value every variable of a part keeps under the             *)
(* specifications of the other parts.                                      *)
(***************************************************************************)
KeyGenParked ==
    /\ kg_pc = "off"
    /\ order_n = 0
    /\ random_k = 0
    /\ key_pair = None

MulParked ==
    /\ mul_pc = "off"
    /\ scalar = <<>>
    /\ round_i = 0
    /\ round_j = 0
    /\ jacobian = None
    /\ n_is_infinity_mask = 0
    /\ ops = None
    /\ trail = <<>>
    /\ mul_out = None
    /\ var_out = None

AddParked ==
    /\ add_pc = "off"
    /\ self_pt = None
    /\ other_pt = None
    /\ add_out = None
    /\ dbl_out = None

OnceParked ==
    /\ INITIALIZER = "off"
    /\ ELLIPTIC = 0
    /\ heap = <<>>
    /\ thread_pc = <<>>
    /\ returned = <<>>
    /\ closure_runs = 0
    /\ null_deref = FALSE

SelectParked ==
    /\ sel_pc = "off"
    /\ sel_variant = "none"
    /\ sel_index = 0
    /\ sel_table = <<>>
    /\ sel_masks = <<>>
    /\ sel_branches = <<>>
    /\ sel_out = None

NafParked ==
    /\ naf_pc = "off"
    /\ naf_k = 0
    /\ naf_out = None

EcbParked ==
    /\ ecb_pc = "off"
    /\ ecb_key = 0
    /\ plain = <<>>
    /\ cipher = <<>>
    /\ recovered = None

\* ---- the codec as a state machine ----

CodecParked ==
    /\ codec_pc = "off"
    /\ codec_kind = "none"
    /\ key_in = None
    /\ key_text = <<>>
    /\ decoded = None

\* Nothing outside the codec changes while the codec runs.
CodecFrame == UNCHANGED <<keygenVars, mulVars, addVars, onceVars, selVars, nafVars, ecbVars>>

InitCodec ==
    /\ KeyGenParked /\ MulParked /\ AddParked /\ OnceParked /\ SelectParked /\ NafParked /\ EcbParked
    /\ codec_kind \in {"public", "private"}
    /\ \/ /\ codec_pc = "key"
          /\ key_in \in (IF codec_kind = "public" THEN PublicKeys ELSE PrivateKeys)
          /\ key_text = <<>>
       \/ /\ codec_pc = "text"
          /\ key_in = None
          /\ key_text \in RawStrings
    /\ decoded = None

PublicEncode ==
    /\ codec_pc = "key" /\ codec_kind = "public"
    /\ key_text' = PublicKey_encode(key_in)
    /\ codec_pc' = "text"
    /\ UNCHANGED <<codec_kind, key_in, decoded>>
    /\ CodecFrame

PublicDecode ==
    /\ codec_pc = "text" /\ codec_kind = "public"
    /\ decoded' = PublicKey_decode(key_text)
    /\ codec_pc' = "done"
    /\ UNCHANGED <<codec_kind, key_in, key_text>>
    /\ CodecFrame

PrivateEncode ==
    /\ codec_pc = "key" /\ codec_kind = "private"
    /\ key_text' = PrivateKey_encode(key_in)
    /\ codec_pc' = "text"
    /\ UNCHANGED <<codec_kind, key_in, decoded>>
    /\ CodecFrame

PrivateDecode ==
    /\ codec_pc = "text" /\ codec_kind = "private"
    /\ decoded' = PrivateKey_decode(key_text)
    /\ codec_pc' = "done"
    /\ UNCHANGED <<codec_kind, key_in, key_text>>
    /\ CodecFrame

NextCodec == PublicEncode \/ PublicDecode \/ PrivateEncode \/ PrivateDecode

SpecCodec == InitCodec /\ [][NextCodec]_vars

(***************************************************************************)
(* PART 7.  Fixed-point multiplication as a state machine                  *)
(***************************************************************************)

\* ---- bounds of the scalars ----
MaxSetBytes == 2    \* how many bytes of a sampled scalar are non-zero

\* The byte positions (little-endian) and byte values the samples are made of.
\* Bytes 0, 8, 16, 24 feed the four bits of the first group's index, bytes
\* 4 and 31 those of the second group's.
BytePositions == {0, 4, 8, 16, 24, 31}
ByteValues == {1, 128, 255}

\* The BigUint of a little-endian byte array.
FromArray(arr) == from_bytes_be([i \in 1..Len(arr) |-> arr[Len(arr) + 1 - i]])

SparseScalars ==
    {FromArray([p \in 1..ScalarBytes |-> IF (p - 1) \in S THEN v ELSE 0]) :
        S \in {T \in SUBSET BytePositions : Cardinality(T) <= MaxSetBytes}, v \in ByteValues}

\* The private key of tests::generator, 0x6aea1ccf...b695f28e, big-endian.
TestVectorScalar ==
    <<106, 234, 28, 207, 97, 4, 136, 170, 167, 253, 219, 163, 221, 109, 118, 211,
      189, 253, 80, 249, 87, 216, 71, 190, 61, 69, 61, 239, 182, 149, 242, 142>>

AllOnesScalar == [i \in 1..ScalarBytes |-> 255]

MulScalars == SparseScalars \cup {TestVectorScalar, AllOnesScalar, Oversized}

\* The generator as an affine point: 2^0 * G.
BasePoint == Affine(BagOfSet({0}))

\* Nothing outside the multiplication changes while it runs.
MulFrame == UNCHANGED <<codecVars, keygenVars, addVars, onceVars, selVars, nafVars, ecbVars>>

InitMul ==
    /\ CodecParked /\ KeyGenParked /\ AddParked /\ OnceParked /\ SelectParked /\ NafParked /\ EcbParked
    /\ mul_pc = "call"
    /\ scalar \in MulScalars
    /\ round_i = 0
    /\ round_j = 0
    /\ jacobian = None
    /\ n_is_infinity_mask = U32Zero
    /\ ops = NoOps
    /\ trail = <<>>
    /\ mul_out = None
    /\ var_out = None

MulState == [jacobian |-> jacobian, n_is_infinity_mask |-> n_is_infinity_mask, ops |-> ops, trail |-> trail]

SetMulState(st) ==
    /\ jacobian' = st.jacobian
    /\ n_is_infinity_mask' = st.n_is_infinity_mask
    /\ ops' = st.ops
    /\ trail' = st.trail

\* multiply, up to the head of the outer loop: the scalar's bytes are laid
\* out, the accumulator and the mask are initialised.
MulEnter ==
    /\ mul_pc = "call"
    /\ IF ScalarArray(scalar).status = "panic"
       THEN /\ mul_out' = ScalarArray(scalar)
            /\ mul_pc' = "done"
            /\ UNCHANGED <<jacobian, n_is_infinity_mask, ops, trail>>
       ELSE /\ SetMulState(MulStart)
            /\ mul_pc' = "round"
            /\ UNCHANGED mul_out
    /\ UNCHANGED <<scalar, round_i, round_j, var_out>>
    /\ MulFrame

\* for i in 0..32 { if i != 0 { double } ; j = 0 ...
MulRoundHead ==
    /\ mul_pc = "round"
    /\ SetMulState(MulDouble(MulState, round_i))
    /\ round_j' = 0
    /\ mul_pc' = "select"
    /\ UNCHANGED <<scalar, round_i, mul_out, var_out>>
    /\ MulFrame

\* One pass of the inner loop: while j <= 32 { ...; j += 32 }
MulSelectStep ==
    /\ mul_pc = "select"
    /\ SetMulState(MulSelect(MulState, ScalarArray(scalar).bytes, round_i, round_j))
    /\ IF round_j + 32 <= 32
       THEN /\ round_j' = round_j + 32
            /\ UNCHANGED <<round_i, mul_pc>>
       ELSE /\ round_j' = round_j + 32
            /\ round_i' = round_i + 1
            /\ mul_pc' = IF round_i + 1 < Rounds THEN "round" ELSE "to_affine"
    /\ UNCHANGED <<scalar, mul_out, var_out>>
    /\ MulFrame

\* jacobian.to_affine_point()
MulToAffine ==
    /\ mul_pc = "to_affine"
    /\ mul_out' = to_affine_point(jacobian)
    /\ mul_pc' = "done"
    /\ UNCHANGED <<scalar, round_i, round_j, jacobian, n_is_infinity_mask, ops, trail, var_out>>
    /\ MulFrame

\* The variable-point multiplication of the generator by the same scalar
\* (scalar_multiply(gx, gy, k)), for the cross-check of the two multipliers.
VariableMultiply ==
    /\ mul_pc = "done"
    /\ var_out' = P256AffinePoint_multiply(BasePoint, scalar)
    /\ mul_pc' = "crossed"
    /\ UNCHANGED <<scalar, round_i, round_j, jacobian, n_is_infinity_mask, ops, trail, mul_out>>
    /\ MulFrame

NextMul == MulEnter \/ MulRoundHead \/ MulSelectStep \/ MulToAffine \/ VariableMultiply

SpecMul == InitMul /\ [][NextMul]_vars

\* The steps of the state machine add up to the function.
MulStepsAgree == mul_pc \in {"done", "crossed"} => mul_out = multiply(scalar)

(***************************************************************************)
(* Claims about the fixed-point multiplication                             *)
(***************************************************************************)

MulReturned == mul_pc \in {"done", "crossed"}

\* The positions 0..255 at which the scalar has a one bit.
OneBits(k) == {e \in 0..(8 * ScalarBytes - 1) : BitAt(BitsOf(k), e) = 1}

\* C5: for every scalar k with 0 < k < 2^256 (which covers 0 < k < n),
\* multiply(k) returns k * G: with the table holding what it is taken to hold
\* and exact double, add_affine_point and to_affine_point, every bit position
\* 0..255 that is set in k has been accumulated exactly once with weight
\* 2^position, and nothing else has.
FixedPointMultiplyExact ==
    (MulReturned /\ scalar # <<>> /\ Len(scalar) <= ScalarBytes)
        => mul_out = Affine(BagOfSet(OneBits(scalar)))

\* The private key of tests::generator has been multiplied.
FixedPointMultiplyExactWitness ==
    /\ MulReturned
    /\ scalar = TestVectorScalar
    /\ mul_out.form = "point"
    /\ Cardinality(DOMAIN mul_out.m) > 100

\* C6: for every scalar k, the variable-point multiplication of the generator
\* by k returns the same affine point as the fixed-point multiplication by k.
MultipliersAgree == mul_pc = "crossed" => var_out = mul_out

\* C10: for every 256-bit scalar, multiply performs exactly 31 doublings, 64
\* table selections, 64 add_affine_point calls and 128 conditional copies, so
\* that the counts of any two scalars are equal.
ScalarIndependentWork ==
    (MulReturned /\ Len(scalar) <= ScalarBytes)
        => ops = [doublings |-> 31, selections |-> 64, additions |-> 64, copies |-> 128]

\* The zero scalar, which selects the identity in all 64 selections, has been
\* multiplied in full.
ScalarIndependentWorkWitness ==
    /\ MulReturned
    /\ scalar = <<>>
    /\ ops.selections = 64
    /\ mul_out.form = "identity"

(***************************************************************************)
(* PART 8.  KeyGenerator                                                   *)
(*                                                                         *)
(* The order n and the random value k come from the builder (a trait      *)
(* object); they are small integers here, and the private scalar is laid   *)
(* out as a BigUint only where it enters the multiplication.               *)
(***************************************************************************)

\* ---- bounds of the key generator ----
MaxOrder == 12      \* subgroup orders 3..MaxOrder
MaxRandom == 30     \* random values 0..MaxRandom

\* The BigUint of a small integer.
RECURSIVE BigOfInt(_)
BigOfInt(v) == IF v = 0 THEN <<>> ELSE Append(BigOfInt(v \div 256), v % 256)

\* The reduction with n in place of n - 2.
PrivateScalarModN(n, k) == (k % n) + 1

\* k.mod_floor(&(n - 2)).add(1)
PrivateScalar(n, k) == (k % (n - 2)) + 1

\* gen_private_key
gen_private_key(n, k) == [kind |-> "private", d |-> PrivateScalar(n, k)]

\* builder.scalar_base_multiply(d) for every private scalar there is, computed
\* once: the base point's multiply.
scalar_base_multiply == [d \in 1..MaxOrder |-> multiply(BigOfInt(d))]

\* gen_public_key
gen_public_key(private_key) == scalar_base_multiply[private_key.d]

\* gen_key_pair
gen_key_pair(n, k) ==
    LET private_key == gen_private_key(n, k)
    IN  [kind |-> "key_pair", private |-> private_key, public |-> gen_public_key(private_key)]

KeyGenFrame == UNCHANGED <<codecVars, mulVars, addVars, onceVars, selVars, nafVars, ecbVars>>

InitKeyGen ==
    /\ CodecParked /\ MulParked /\ AddParked /\ OnceParked /\ SelectParked /\ NafParked /\ EcbParked
    /\ kg_pc = "init"
    /\ order_n \in 3..MaxOrder
    /\ random_k = 0
    /\ key_pair = None

\* KeyGenerator::gen_key_pair, with the value elliptic.random() returns.
GenKeyPair ==
    /\ kg_pc = "init"
    /\ \E k \in 0..MaxRandom :
        /\ random_k' = k
        /\ key_pair' = gen_key_pair(order_n, k)
    /\ kg_pc' = "generated"
    /\ UNCHANGED order_n
    /\ KeyGenFrame

NextKeyGen == GenKeyPair

SpecKeyGen == InitKeyGen /\ [][NextKeyGen]_vars


(***************************************************************************)
(* Claims about the key codec                                              *)
(***************************************************************************)

FromEncode == key_in # None

\* C1: for every public key (X, Y) with X, Y < 2^256, decoding the encoded key
\* returns a key with the same X and Y, the encoding being the 130 characters
\* "04" || X || Y with each coordinate as 32 big-endian bytes.
PublicKeyRoundTrip ==
    (codec_kind = "public" /\ FromEncode /\ codec_pc = "done"
        /\ Len(key_in.x) <= CoordBytes /\ Len(key_in.y) <= CoordBytes)
    => /\ Len(key_text) = PublicKeyHexLen
       /\ hex_decode(key_text).data
            = <<4>> \o Zeros(CoordBytes - Len(key_in.x)) \o key_in.x
                   \o Zeros(CoordBytes - Len(key_in.y)) \o key_in.y
       /\ decoded.status = "ok"
       /\ decoded.x = key_in.x
       /\ decoded.y = key_in.y

\* C2: for every private scalar d with 1 <= d < 2^256 (which covers
\* 1 <= d < n-1), also one shorter than 32 bytes, the encoding is exactly 64 hex
\* characters, the 32 big-endian bytes of d left-padded with zeros, and decoding
\* it returns d.
PrivateKeyRoundTrip ==
    (codec_kind = "private" /\ FromEncode /\ codec_pc \in {"text", "done"}
        /\ key_in.d # <<>> /\ Len(key_in.d) <= CoordBytes)
    => /\ Len(key_text) = PrivateKeyHexLen
       /\ \A i \in 1..Len(key_text) : \E h \in 1..16 : HexChars[h] = key_text[i]
       /\ hex_decode(key_text).data = Zeros(CoordBytes - Len(key_in.d)) \o key_in.d
       /\ codec_pc = "done" => decoded = [status |-> "ok", kind |-> "private", d |-> key_in.d]

\* A scalar shorter than 32 bytes has been encoded and decoded again.
PrivateKeyRoundTripWitness ==
    /\ codec_kind = "private" /\ FromEncode /\ codec_pc = "done"
    /\ key_in.d # <<>> /\ Len(key_in.d) < CoordBytes
    /\ decoded.status = "ok"

\* C4: PrivateKey::decode fails with InvalidLength on every string whose
\* length is not 64; PublicKey::decode fails with InvalidLength on every string
\* whose length is not 130, whatever its prefix, and with InvalidPrefix on every
\* 130-character string that does not start with "04"; no key is returned.
DecodeBoundaryFailures ==
    codec_pc = "done" =>
        /\ (codec_kind = "private" /\ Len(key_text) # PrivateKeyHexLen)
                => decoded = Panic("InvalidLength")
        /\ (codec_kind = "public" /\ Len(key_text) # PublicKeyHexLen)
                => decoded = Panic("InvalidLength")
        /\ (codec_kind = "public" /\ Len(key_text) = PublicKeyHexLen
                /\ ~starts_with(key_text, <<"0", "4">>))
                => decoded = Panic("InvalidPrefix")

\* A public-key string that has both the wrong length and the wrong prefix has
\* been refused for its length.
DecodeBoundaryFailuresWitness ==
    /\ codec_pc = "done" /\ codec_kind = "public"
    /\ Len(key_text) = PublicKeyHexLen - 1
    /\ ~starts_with(key_text, <<"0", "4">>)
    /\ decoded = Panic("InvalidLength")

\* C3: for every value k of the randomness source, gen_private_key returns
\* d = (k mod (n-2)) + 1, that is d - 1 is the remainder of k by n - 2, and
\* so 1 <= d < n - 1 for the private key of every generated pair.
PrivateKeyInRange ==
    kg_pc = "generated" =>
        LET d == key_pair.private.d
        IN  /\ 1 <= d /\ d < order_n - 1
            /\ \E q \in 0..random_k : random_k = q * (order_n - 2) + (d - 1)

\* A random value beyond the order has been reduced to the largest private
\* scalar there is, n - 2.
PrivateKeyInRangeWitness ==
    /\ kg_pc = "generated"
    /\ random_k > order_n
    /\ key_pair.private.d = order_n - 2
    /\ key_pair.public.form = "point"

(***************************************************************************)
(* PART 9.  P256JacobianPoint::double and ::add over a small field         *)
(*                                                                         *)
(* The curve is the short Weierstrass curve y^2 = x^3 + ax + b over the    *)
(* prime field of Curve.p elements, with a = p - 3 as on the SM2 curve.    *)
(* A Payload is a residue v together with r, which tells the redundant     *)
(* limb arrays of one residue apart: restore forgets r, and two Payloads   *)
(* have the same limbs exactly when they are the same record.  Arithmetic  *)
(* returns the representation r = 0.                                       *)
(***************************************************************************)

\* ---- bounds ----
MaxRep == 1         \* a residue has the limb arrays 0..MaxRep

\* The curve parameters P256Elliptic::init() builds, scaled down.
Curve == [p |-> 7, a |-> 4, b |-> 6]

Payload(v, r) == [v |-> v, r |-> r]

\* PayloadHelper::transform
transform(v) == Payload(v % Curve.p, 0)

\* PayloadHelper::restore
restore(f) == f.v

\* Payload::add, subtract, multiply, square, scalar_multiply
fe_add(f, g) == transform(f.v + g.v)
fe_subtract(f, g) == transform(f.v + Curve.p - g.v)
fe_multiply(f, g) == transform(f.v * g.v)
fe_square(f) == transform(f.v * f.v)
fe_scalar_multiply(f, c) == transform(f.v * c)

JacobianPoint(x, y, z) == [x |-> x, y |-> y, z |-> z]

\* What a store through a dangling pointer may leave behind.
Clobbered == [x |-> "undefined", y |-> "undefined", z |-> "undefined"]

\* P256JacobianPoint::double
Jacobian_double(self) ==
    LET a == transform(Curve.a)
        x == self.x
        y == self.y
        z == self.z
        alpha == fe_square(z)
        beta == fe_square(y)
        delta == fe_scalar_multiply(fe_multiply(x, beta), 4)
        t1 == fe_multiply(a, fe_square(alpha))
        t2 == fe_scalar_multiply(fe_square(beta), 8)
        gama == fe_add(fe_scalar_multiply(fe_square(x), 3), t1)
        rx == fe_subtract(fe_subtract(fe_square(gama), delta), delta)
        ry == fe_subtract(fe_multiply(fe_subtract(delta, rx), gama), t2)
        rz == fe_subtract(fe_subtract(fe_square(fe_add(y, z)), alpha), beta)
    IN  JacobianPoint(rx, ry, rz)

\* The test on the limbs themselves, without restoring them.
LimbsAreZero(f) == f = Payload(0, 0)

\* if let Sign::NoSign = PayloadHelper::restore(z).sign()
SignIsNoSign(f) == restore(f) = 0

\* The cross terms u1, u2, s1, s2 of add.
CrossTerms(self, other) ==
    LET z12 == fe_square(self.z)
        z22 == fe_square(other.z)
        z13 == fe_multiply(z12, self.z)
        z23 == fe_multiply(z22, other.z)
    IN  [u1 |-> fe_multiply(self.x, z22), u2 |-> fe_multiply(other.x, z12),
         s1 |-> fe_multiply(self.y, z23), s2 |-> fe_multiply(other.y, z13)]

\* Ordering::Equal == u1b.cmp(&u2b) && Ordering::Equal == s1b.cmp(&s2b)
Coincident(self, other) ==
    LET c == CrossTerms(self, other)
    IN  restore(c.u1) = restore(c.u2) /\ restore(c.s1) = restore(c.s2)

\* The tail of add, from let h = ... on.
AddFormulas(self, other) ==
    LET c == CrossTerms(self, other)
        h == fe_subtract(c.u2, c.u1)
        r == fe_subtract(c.s2, c.s1)
        r2 == fe_square(r)
        h2 == fe_square(h)
        h3 == fe_multiply(h2, h)
        tmp == fe_multiply(c.u1, h2)
        x3 == fe_subtract(fe_subtract(r2, fe_multiply(h2, h)), fe_scalar_multiply(tmp, 2))
        y3 == fe_subtract(fe_multiply(r, fe_subtract(tmp, x3)), fe_multiply(h3, c.s1))
        z3 == fe_multiply(fe_multiply(self.z, other.z), h)
    IN  JacobianPoint(x3, y3, z3)

\* P256JacobianPoint::add.  For coincident operands the code computes
\* self.double() and stores its limbs through pointers to the temporaries
\* that self.N.data() returned, which are dead by then: with
\* stores = "dead_slot" they change nothing that is read again, with
\* stores = "live_slot" they overwrite live data and the result is
\* undefined.  Either way the function goes on to its formulas.
Jacobian_add(self, other, stores) ==
    IF SignIsNoSign(self.z) THEN other
    ELSE IF SignIsNoSign(other.z) THEN self
    ELSE IF Coincident(self, other) /\ stores = "live_slot" THEN Clobbered
    ELSE AddFormulas(self, other)

\* ---- the inputs of add ----

Residues == 0..(Curve.p - 1)

\* The affine points of the curve.
CurvePoints ==
    {xy \in Residues \X Residues :
        (xy[2] * xy[2]) % Curve.p = (xy[1] * xy[1] * xy[1] + Curve.a * xy[1] + Curve.b) % Curve.p}

\* Every Jacobian form (X z^2, Y z^3, z) of every affine point, in every limb
\* representation, one representation per point.
FinitePoints ==
    {JacobianPoint(Payload((xy[1] * z * z) % Curve.p, r), Payload((xy[2] * z * z * z) % Curve.p, r), Payload(z, r)) :
        xy \in CurvePoints, z \in 1..(Curve.p - 1), r \in 0..MaxRep}

\* Points at infinity: z is a zero in any representation.
InfinitePoints ==
    {JacobianPoint(Payload(v, r), Payload(v, r), Payload(0, r)) : v \in {0, 1}, r \in 0..MaxRep}

AddFrame == UNCHANGED <<codecVars, keygenVars, mulVars, onceVars, selVars, nafVars, ecbVars>>

InitAdd ==
    /\ CodecParked /\ KeyGenParked /\ MulParked /\ OnceParked /\ SelectParked /\ NafParked /\ EcbParked
    /\ add_pc = "call"
    /\ self_pt \in FinitePoints \cup InfinitePoints
    /\ other_pt \in FinitePoints \cup InfinitePoints
    /\ add_out = None
    /\ dbl_out = None

\* self.add(&other); dbl_out is the local p of the coincident branch.
Add ==
    /\ add_pc = "call"
    /\ \E stores \in {"dead_slot", "live_slot"} :
        add_out' = Jacobian_add(self_pt, other_pt, stores)
    /\ dbl_out' = IF ~SignIsNoSign(self_pt.z) /\ ~SignIsNoSign(other_pt.z) /\ Coincident(self_pt, other_pt)
                  THEN Jacobian_double(self_pt) ELSE None
    /\ add_pc' = "added"
    /\ UNCHANGED <<self_pt, other_pt>>
    /\ AddFrame

NextAdd == Add

SpecAdd == InitAdd /\ [][NextAdd]_vars

(***************************************************************************)
(* Claims about add and double                                             *)
(***************************************************************************)

\* Two Jacobian triples that stand for the same point of the curve.
SamePoint(j1, j2) ==
    /\ j1 # Clobbered /\ j2 # Clobbered
    /\ IF restore(j1.z) = 0 \/ restore(j2.z) = 0
       THEN restore(j1.z) = 0 /\ restore(j2.z) = 0
       ELSE Coincident(j1, j2)

\* C7: for every valid non-infinity Jacobian point P, add(P, P) returns the
\* same point as double(P); when add finds its operands coincident, what it
\* returns is the result of double().
AddOfEqualIsDouble ==
    (add_pc = "added" /\ dbl_out # None) => SamePoint(add_out, dbl_out)

\* C8: if z1 restores to 0, in whatever limb representation, add returns the
\* second operand with its limbs unchanged; otherwise, if z2 restores to 0,
\* it returns the first operand with its limbs unchanged.
AddIdentityHandling ==
    add_pc = "added" =>
        /\ restore(self_pt.z) = 0 => add_out = other_pt
        /\ (restore(self_pt.z) # 0 /\ restore(other_pt.z) = 0) => add_out = self_pt

\* A redundant zero in z1 has made add return a finite second operand whose
\* limbs are not the canonical ones.
AddIdentityHandlingWitness ==
    /\ add_pc = "added"
    /\ restore(self_pt.z) = 0 /\ self_pt.z.r # 0
    /\ restore(other_pt.z) # 0 /\ other_pt.x.r # 0
    /\ add_out = other_pt

(***************************************************************************)
(* PART 10.  P256Elliptic::init: the Once and the global pointer           *)
(***************************************************************************)

\* ---- bounds ----
NumThreads == 3     \* threads that call init()
MaxCalls == 2       \* calls of init() per thread

Threads == 1..NumThreads
Null == 0           \* std::ptr::null()

\* The value the closure builds from the constants of params.rs.
P256EllipticValue ==
    [ec |-> [p |-> "EC_P", a |-> "EC_A", b |-> "EC_B", gx |-> "EC_GX", gy |-> "EC_GY",
             n |-> "EC_N", bits |-> 256],
     ri |-> "RI"]

\* Whether a caller that finds the Once in this state runs the closure.
\* Here every caller that does not find it complete does.
RunsClosureUnlessComplete(state) == state # "Complete"

\* Once::call_once runs the closure for the one caller that finds the Once
\* incomplete; it turns Running in the same atomic step.
RunsClosure(state) == state = "Incomplete"

OnceFrame == UNCHANGED <<codecVars, keygenVars, mulVars, addVars, selVars, nafVars, ecbVars>>

InitOnce ==
    /\ CodecParked /\ KeyGenParked /\ MulParked /\ AddParked /\ SelectParked /\ NafParked /\ EcbParked
    /\ INITIALIZER = "Incomplete"
    /\ ELLIPTIC = Null
    /\ heap = <<>>
    /\ thread_pc = [t \in Threads |-> "idle"]
    /\ returned = [t \in Threads |-> <<>>]
    /\ closure_runs = 0
    /\ null_deref = FALSE

\* A thread calls P256Elliptic::init().
InitCall(t) ==
    /\ thread_pc[t] = "idle"
    /\ Len(returned[t]) < MaxCalls
    /\ thread_pc' = [thread_pc EXCEPT ![t] = "call_once"]
    /\ UNCHANGED <<INITIALIZER, ELLIPTIC, heap, returned, closure_runs, null_deref>>
    /\ OnceFrame

\* call_once finds the Once complete and returns at once.
CallOnceDone(t) ==
    /\ thread_pc[t] = "call_once"
    /\ INITIALIZER = "Complete"
    /\ thread_pc' = [thread_pc EXCEPT ![t] = "deref"]
    /\ UNCHANGED <<INITIALIZER, ELLIPTIC, heap, returned, closure_runs, null_deref>>
    /\ OnceFrame

\* call_once takes the Once for this thread, which goes on to run the
\* closure.  A thread that finds the Once Running waits: it has no step
\* until the Once is complete.
CallOnceClaim(t) ==
    /\ thread_pc[t] = "call_once"
    /\ INITIALIZER # "Complete"
    /\ RunsClosure(INITIALIZER)
    /\ INITIALIZER' = "Running"
    /\ thread_pc' = [thread_pc EXCEPT ![t] = "closure"]
    /\ UNCHANGED <<ELLIPTIC, heap, returned, closure_runs, null_deref>>
    /\ OnceFrame

\* The closure: the value is built and boxed, and its address is stored in
\* ELLIPTIC.
Closure(t) ==
    /\ thread_pc[t] = "closure"
    /\ heap' = Append(heap, P256EllipticValue)
    /\ ELLIPTIC' = Len(heap) + 1
    /\ closure_runs' = closure_runs + 1
    /\ thread_pc' = [thread_pc EXCEPT ![t] = "closure_end"]
    /\ UNCHANGED <<INITIALIZER, returned, null_deref>>
    /\ OnceFrame

\* The closure has returned: call_once marks the Once complete and returns.
ClosureEnd(t) ==
    /\ thread_pc[t] = "closure_end"
    /\ INITIALIZER' = "Complete"
    /\ thread_pc' = [thread_pc EXCEPT ![t] = "deref"]
    /\ UNCHANGED <<ELLIPTIC, heap, returned, closure_runs, null_deref>>
    /\ OnceFrame

\* (*ELLIPTIC).clone(); the dereference of a null pointer is undefined.
Deref(t) ==
    /\ thread_pc[t] = "deref"
    /\ IF ELLIPTIC = Null
       THEN /\ null_deref' = TRUE
            /\ returned' = [returned EXCEPT ![t] = Append(@, "undefined")]
       ELSE /\ returned' = [returned EXCEPT ![t] = Append(@, heap[ELLIPTIC])]
            /\ UNCHANGED null_deref
    /\ thread_pc' = [thread_pc EXCEPT ![t] = "idle"]
    /\ UNCHANGED <<INITIALIZER, ELLIPTIC, heap, closure_runs>>
    /\ OnceFrame

NextOnce ==
    \E t \in Threads :
        InitCall(t) \/ CallOnceDone(t) \/ CallOnceClaim(t) \/ Closure(t) \/ ClosureEnd(t) \/ Deref(t)

SpecOnce == InitOnce /\ [][NextOnce]_vars

(***************************************************************************)
(* Claims about the one-time initialisation                                *)
(***************************************************************************)

\* What holds in every state: the closure has run at most once, and exactly
\* once when the Once is complete; no null pointer has been dereferenced;
\* every call has returned the same parameter values.
OneTimeInitState ==
    /\ closure_runs <= 1
    /\ INITIALIZER = "Complete" => (closure_runs = 1 /\ ELLIPTIC # Null)
    /\ ~null_deref
    /\ \A t \in Threads : \A i \in 1..Len(returned[t]) : returned[t][i] = P256EllipticValue

\* What holds of every step: a complete Once stays complete, and the pointer
\* and the value it points to stay what they are.
OneTimeInitStep ==
    INITIALIZER = "Complete" =>
        /\ INITIALIZER' = "Complete"
        /\ ELLIPTIC' = ELLIPTIC
        /\ heap'[ELLIPTIC'] = heap[ELLIPTIC]

\* C9: in every interleaving of the threads that call init(), the closure
\* runs exactly once, no caller dereferences the pointer before it is set,
\* every call returns the same values, and once Initialized the state never
\* goes back and the stored value never changes.
OneTimeInit == []OneTimeInitState /\ [][OneTimeInitStep]_vars

\* Every thread has returned from init() at least once, one of them through
\* the closure.
OneTimeInitWitness ==
    /\ INITIALIZER = "Complete"
    /\ closure_runs = 1
    /\ \A t \in Threads : Len(returned[t]) >= 1

(***************************************************************************)
(* PART 11.  P256AffinePoint::select and P256JacobianPoint::select         *)
(*                                                                         *)
(* Here the tables hold words: a Payload is its 9 limbs, each a u32, and   *)
(* a table is any contents of such words.                                  *)
(***************************************************************************)

\* ---- bounds ----
MaxSeed == 3        \* the table contents 0..MaxSeed

Limbs == 9          \* for j in 0..9
TableEntries == 16  \* for i in 0..16 / 1..16

\* Word number w of the table contents seed.
TableWord(seed, w) ==
    [b \in 1..WordBits |-> IF ((w + 1) * (b + seed) + (w \div Limbs) + b * b) % 17 < 8 THEN 1 ELSE 0]

\* Payload::init().data()
ZeroLimbs == [j \in 0..(Limbs - 1) |-> U32Zero]

\* The Vec<u32> handed to the affine select: 15 entries of 18 words.
AffineTable(seed) == [w \in 0..((TableEntries - 1) * 2 * Limbs - 1) |-> TableWord(seed, w)]

\* The [P256JacobianPoint; 16] handed to the Jacobian select; on entry
\* table[0] is zero.
JacobianTable(seed) ==
    [i \in 0..(TableEntries - 1) |->
        IF i = 0 THEN [x |-> ZeroLimbs, y |-> ZeroLimbs, z |-> ZeroLimbs]
        ELSE [x |-> [j \in 0..(Limbs - 1) |-> TableWord(seed, 3 * Limbs * i + j)],
              y |-> [j \in 0..(Limbs - 1) |-> TableWord(seed, 3 * Limbs * i + Limbs + j)],
              z |-> [j \in 0..(Limbs - 1) |-> TableWord(seed, 3 * Limbs * i + 2 * Limbs + j)]]]

\* mask = i ^ index; mask |= mask >> 2; mask |= mask >> 1; mask &= 1
SelectLowBit(i, index) ==
    LET m0 == BitXor(U32(i), U32(index))
        m1 == BitOr(m0, wrapping_shr(m0, 2))
        m2 == BitOr(m1, wrapping_shr(m1, 1))
    IN  BitAnd(m2, U32(1))

\* The outcome of if mask == 0 in the affine select, for candidate i.
AffineBranch(i, index) == SelectLowBit(i, index) = U32Zero

\* The branch outcomes of one call of the affine select, in the order run.
AffineBranches(index) == [i \in 1..(TableEntries - 1) |-> AffineBranch(i, index)]

\* mask = mask.wrapping_sub(1) of the Jacobian select.
JacobianSelectMask(i, index) == wrapping_sub_1(SelectLowBit(i, index))

\* out |= word(i) & masks[i] for every candidate i, from out = 0.
OrMasked(cands, word, masks) ==
    [b \in 1..WordBits |-> IF \E i \in cands : word[i][b] = 1 /\ masks[i][b] = 1 THEN 1 ELSE 0]

\* P256AffinePoint::select(index, table)
P256AffinePoint_select(index, table) ==
    LET cands == 1..(TableEntries - 1)
        masks == [i \in cands |-> SelectMask(i, index)]
        XWord(j) == OrMasked(cands, [i \in cands |-> table[(i - 1) * 18 + j]], masks)
        YWord(j) == OrMasked(cands, [i \in cands |-> table[(i - 1) * 18 + 9 + j]], masks)
    IN  [masks |-> masks,
         out |-> [x |-> [j \in 0..(Limbs - 1) |-> XWord(j)], y |-> [j \in 0..(Limbs - 1) |-> YWord(j)]]]

\* P256JacobianPoint::select(index, table)
P256JacobianPoint_select(index, table) ==
    LET cands == 0..(TableEntries - 1)
        masks == [i \in cands |-> JacobianSelectMask(i, index)]
        XWord(j) == OrMasked(cands, [i \in cands |-> table[i].x[j]], masks)
        YWord(j) == OrMasked(cands, [i \in cands |-> table[i].y[j]], masks)
        ZWord(j) == OrMasked(cands, [i \in cands |-> table[i].z[j]], masks)
    IN  [masks |-> masks,
         out |-> [x |-> [j \in 0..(Limbs - 1) |-> XWord(j)], y |-> [j \in 0..(Limbs - 1) |-> YWord(j)],
                  z |-> [j \in 0..(Limbs - 1) |-> ZWord(j)]]]

SelectFrame == UNCHANGED <<codecVars, keygenVars, mulVars, addVars, onceVars, nafVars, ecbVars>>

InitSelect ==
    /\ CodecParked /\ KeyGenParked /\ MulParked /\ AddParked /\ OnceParked /\ NafParked /\ EcbParked
    /\ sel_pc = "call"
    /\ sel_index \in 0..(TableEntries - 1)
    /\ sel_variant \in {"affine", "jacobian"}
    /\ \E seed \in 0..MaxSeed :
        sel_table = IF sel_variant = "affine" THEN AffineTable(seed) ELSE JacobianTable(seed)
    /\ sel_masks = <<>>
    /\ sel_branches = <<>>
    /\ sel_out = None

SelectAffine ==
    /\ sel_pc = "call"
    /\ sel_variant = "affine"
    /\ LET r == P256AffinePoint_select(sel_index, sel_table)
       IN  sel_masks' = r.masks /\ sel_out' = r.out
    /\ sel_branches' = AffineBranches(sel_index)
    /\ sel_pc' = "done"
    /\ UNCHANGED <<sel_variant, sel_index, sel_table>>
    /\ SelectFrame

\* The Jacobian select has no conditional in its loop.
SelectJacobian ==
    /\ sel_pc = "call"
    /\ sel_variant = "jacobian"
    /\ LET r == P256JacobianPoint_select(sel_index, sel_table)
       IN  sel_masks' = r.masks /\ sel_out' = r.out
    /\ sel_branches' = <<>>
    /\ sel_pc' = "done"
    /\ UNCHANGED <<sel_variant, sel_index, sel_table>>
    /\ SelectFrame

NextSelect == SelectAffine \/ SelectJacobian

SpecSelect == InitSelect /\ [][NextSelect]_vars

(***************************************************************************)
(* Claims about the table selection                                        *)
(***************************************************************************)

\* C11: the affine select computes its masks by bitwise arithmetic only: the
\* sequence of branch outcomes it runs is the same for any two indices in
\* 0..15, no branch outcome depends on the index.
SelectBranchFree ==
    (sel_pc = "done" /\ sel_variant = "affine")
        => \A other \in 0..(TableEntries - 1) : AffineBranches(other) = sel_branches

\* Entry number index of the table of each variant.
EntryOf(variant, table, index) ==
    IF variant = "jacobian" THEN table[index]
    ELSE IF index = 0 THEN [x |-> ZeroLimbs, y |-> ZeroLimbs]
    ELSE [x |-> [j \in 0..(Limbs - 1) |-> table[(index - 1) * 18 + j]],
          y |-> [j \in 0..(Limbs - 1) |-> table[(index - 1) * 18 + 9 + j]]]

\* C16: for every index in 0..15 and every table, the mask of candidate i is
\* 0xffffffff for i = index and 0 for every other i, and select returns entry
\* number index: all zero for index 0, the 18 words at (index - 1) * 18 of the
\* affine table, table[index] of the Jacobian one.
SelectReturnsEntry ==
    sel_pc = "done" =>
        /\ \A i \in DOMAIN sel_masks : sel_masks[i] = IF i = sel_index THEN U32Max ELSE U32Zero
        /\ sel_out = EntryOf(sel_variant, sel_table, sel_index)

\* The affine select has returned the last entry of a table whose entries
\* all differ, and it is not the zero entry.
SelectReturnsEntryWitness ==
    /\ sel_pc = "done"
    /\ sel_variant = "affine"
    /\ sel_index = TableEntries - 1
    /\ sel_out.x # ZeroLimbs
    /\ \A a, b \in 0..(TableEntries - 1) :
        a # b => EntryOf("affine", sel_table, a) # EntryOf("affine", sel_table, b)

(***************************************************************************)
(* PART 12.  w_naf as an operation                                         *)
(***************************************************************************)

\* ---- bounds ----
MaxNafScalar == 600 \* every scalar 0..MaxNafScalar is recoded
MaxNafBits == 28    \* and 2^e - 1, 2^e, 2^e + 1 for every e up to MaxNafBits

NafScalars ==
    (0..MaxNafScalar) \cup {(2 ^ e) + c : e \in 1..MaxNafBits, c \in {-1, 0, 1}}

NafFrame == UNCHANGED <<codecVars, keygenVars, mulVars, addVars, onceVars, selVars, ecbVars>>

InitNaf ==
    /\ CodecParked /\ KeyGenParked /\ MulParked /\ AddParked /\ OnceParked /\ SelectParked /\ EcbParked
    /\ naf_pc = "call"
    /\ naf_k \in NafScalars
    /\ naf_out = None

\* let scalar = w_naf(scalar);
WNaf ==
    /\ naf_pc = "call"
    /\ naf_out' = w_naf(BigOfInt(naf_k))
    /\ naf_pc' = "done"
    /\ UNCHANGED naf_k
    /\ NafFrame

NextNaf == WNaf

SpecNaf == InitNaf /\ [][NextNaf]_vars

(***************************************************************************)
(* Claims about w_naf                                                      *)
(***************************************************************************)

NonZeroAt(d) == {j \in 1..Len(d) : d[j] # 0}

\* Any two nonzero digits of d have at least gap zero digits between them.
Separated(d, gap) == \A a, b \in NonZeroAt(d) : a < b => b - a - 1 >= gap

\* Every nonzero digit of d is odd and at most 15 in absolute value.
OddAndSmall(d) == \A j \in NonZeroAt(d) : d[j] % 2 = 1 /\ d[j] <= 15 /\ d[j] >= -15

\* C12, as stated: every nonzero digit of w_naf(k) is odd and at most 15 in
\* absolute value, and any two nonzero digits are separated by at least 4
\* zero digits.
NafDigitStructureFourZeros ==
    naf_pc = "done" =>
        /\ naf_out.status = "ok"
        /\ OddAndSmall(naf_out.digits)
        /\ Separated(naf_out.digits, 4)

\* C12, as the code has it: every nonzero digit of w_naf(k) is odd and at
\* most 15 in absolute value, and any two nonzero digits are separated by at
\* least 3 zero digits (the window is 4 bits wide: after a digit at position
\* p the next one is at p + 4 at the earliest).
NafDigitStructure ==
    naf_pc = "done" =>
        /\ naf_out.status = "ok"
        /\ OddAndSmall(naf_out.digits)
        /\ Separated(naf_out.digits, 3)

\* A recoding with a negative digit and two nonzero digits exactly four
\* positions apart.
NafDigitStructureWitness ==
    /\ naf_pc = "done"
    /\ naf_out.status = "ok"
    /\ \E a, b \in NonZeroAt(naf_out.digits) : b = a + 4 /\ naf_out.digits[b] < 0

\* The value of the digits d, most significant first.
RECURSIVE DigitsValue(_, _)
DigitsValue(d, n) == IF n = 0 THEN 0 ELSE 2 * DigitsValue(d, n - 1) + d[n]

\* C17: for every scalar k >= 0, w_naf(k) ends without indexing outside its
\* buffer of bits + 1 elements and returns digits d_0..d_m, most significant
\* first, whose sum of d_j * 2^(m-j) is k (the final carry included), with
\* d_0 nonzero whenever k > 0.
NafPreservesScalar ==
    naf_pc = "done" =>
        /\ naf_out.status = "ok"
        /\ DigitsValue(naf_out.digits, Len(naf_out.digits)) = naf_k
        /\ naf_k > 0 => naf_out.digits[1] # 0

\* A scalar of all ones beyond the small range: its final carry fills the
\* last element of the buffer.
NafPreservesScalarWitness ==
    /\ naf_pc = "done"
    /\ naf_k > MaxNafScalar
    /\ naf_out.status = "ok"
    /\ Len(naf_out.digits) = Len(BitsOf(BigOfInt(naf_k))) + 1
    /\ naf_out.digits[1] = 1
    /\ \E j \in NonZeroAt(naf_out.digits) : naf_out.digits[j] < 0

(***************************************************************************)
(* Claims about the accumulator of the fixed-point multiplication          *)
(***************************************************************************)

\* An outcome that is a failure, not a value.
IsFailure(v) == "status" \in DOMAIN v /\ v.status = "panic"

\* Every index selected so far is 0.
AllZeroSoFar(t) == \A s \in 1..Len(t) : t[s] = 0

\* C13: a fixed-point multiplication all of whose 64 selected indices are 0
\* (k = 0), which ends at the point at infinity, produces an explicit
\* failure and never returns an ordinary coordinate pair such as (0, 0).
InfinityFailsExplicitly ==
    (MulReturned /\ Len(trail) = 2 * Rounds /\ AllZeroSoFar(trail)) => IsFailure(mul_out)

\* The selection step that is being taken: its index and the table entry
\* that goes with it.
StepIndex == trail'[Len(trail')]
StepEntry == TableEntry((round_j \div 32) * GroupWords, StepIndex)

\* The parts of the update rule that hold as stated: (b) the first nonzero
\* index makes the accumulator the selected point with z = 1, (c) a later one
\* makes it add_affine_point(accumulator, selected), and the mask is all-ones
\* exactly while every index so far is 0 and stays cleared once cleared.
UpdateRuleNonZero ==
    /\ (StepIndex # 0 /\ n_is_infinity_mask = U32Max) => jacobian' = Jacobian("point", StepEntry.m, TRUE)
    /\ (StepIndex # 0 /\ n_is_infinity_mask # U32Max) => jacobian' = add_affine_point(jacobian, StepEntry)
    /\ n_is_infinity_mask \in {U32Zero, U32Max}
    /\ n_is_infinity_mask' = IF AllZeroSoFar(trail') THEN U32Max ELSE U32Zero
    /\ n_is_infinity_mask = U32Zero => n_is_infinity_mask' = U32Zero

\* C15, as stated: at every selection step, (a) if idx = 0 the accumulator
\* is not updated at all; (b), (c) and the mask as above.
AccumulatorUpdateRuleNoUpdate ==
    [][mul_pc = "select" => ((StepIndex = 0 => jacobian' = jacobian) /\ UpdateRuleNonZero)]_vars

\* (a) as the code has it: with idx = 0 the accumulator is left alone once
\* the mask is cleared; while the mask is all-ones it is overwritten with
\* the selected all-zero entry and z = 1, that is (0, 0, 1).
UpdateRuleZero ==
    /\ (StepIndex = 0 /\ n_is_infinity_mask = U32Zero) => jacobian' = jacobian
    /\ (StepIndex = 0 /\ n_is_infinity_mask = U32Max) => jacobian' = Jacobian("origin_z1", EmptyBag, TRUE)

\* C15: at every selection step, (a) if idx = 0 the accumulator is not
\* updated once some earlier index was nonzero, and becomes (0, 0, 1) while
\* the mask is still all-ones; (b) if idx # 0 and every earlier index was 0
\* it becomes the selected point with z = 1; (c) if idx # 0 and some earlier
\* index was nonzero it becomes add_affine_point(accumulator, selected); the
\* mask is all-ones exactly while all indices so far are 0 and never returns
\* to all-ones.
AccumulatorUpdateRule ==
    [][mul_pc = "select" => (UpdateRuleZero /\ UpdateRuleNonZero)]_vars

\* All three cases have been stepped through: zero indices before and after
\* the first nonzero one, and a sum of two table entries in the accumulator.
AccumulatorUpdateRuleWitness ==
    /\ mul_pc = "select"
    /\ n_is_infinity_mask = U32Zero
    /\ trail[1] = 0
    /\ trail[Len(trail)] = 0
    /\ jacobian.form = "point"
    /\ Cardinality(DOMAIN jacobian.m) >= 2

(***************************************************************************)
(* PART 13.  SM4 in ECB mode: CryptoMode::encrypt_bytes, decrypt_bytes     *)
(*                                                                         *)
(* The block cipher itself (Crypto::encrypt, Crypto::decrypt) is not part  *)
(* of the sources at hand: it is a keyed permutation of the 16-byte        *)
(* blocks, here a rotation of the block with a keyed offset on every byte. *)
(***************************************************************************)

\* ---- bounds ----
MaxPlainLen == 33   \* plaintexts of 0..MaxPlainLen bytes
MaxKey == 1         \* the keys 0..MaxKey

BlockBytes == 16

KeyOffset(key, i) == (key * 17 + i * 3 + 1) % 256

\* Crypto::encrypt on one block
block_encrypt(key, block) ==
    [i \in 1..BlockBytes |-> (block[(i % BlockBytes) + 1] + KeyOffset(key, i)) % 256]

\* Crypto::decrypt on one block
block_decrypt(key, block) ==
    [j \in 1..BlockBytes |->
        LET i == ((j + BlockBytes - 2) % BlockBytes) + 1
        IN  (block[i] + 256 - KeyOffset(key, i)) % 256]

\* &data[i * 16..(i + 1) * 16]
BlockOf(data, i) == SubSeq(data, i * BlockBytes + 1, (i + 1) * BlockBytes)

\* The last block with zero bytes for its padding.
LastBlockZeroPadded(data, quotients, remainder) ==
    [i \in 1..BlockBytes |-> IF i <= remainder THEN data[quotients * BlockBytes + i] ELSE 0]

\* The last block encrypt_bytes builds: the remainder of the plaintext
\* followed by 16 - remainder bytes of that value, or 16 bytes of 0x10.
LastBlock(data, quotients, remainder) ==
    IF remainder # 0
    THEN [i \in 1..BlockBytes |->
            IF i <= remainder THEN data[quotients * BlockBytes + i] ELSE BlockBytes - remainder]
    ELSE [i \in 1..BlockBytes |-> 16]

\* CryptoMode::encrypt_bytes
encrypt_bytes(key, data) ==
    LET quotients == Len(data) \div BlockBytes
        remainder == Len(data) % BlockBytes
        blocks == [i \in 0..quotients |->
                    block_encrypt(key, IF i < quotients THEN BlockOf(data, i)
                                       ELSE LastBlock(data, quotients, remainder))]
    IN  [n \in 1..(BlockBytes * (quotients + 1)) |-> blocks[(n - 1) \div BlockBytes][((n - 1) % BlockBytes) + 1]]

\* CryptoMode::decrypt_bytes: the panic on a ragged length, the blocks
\* decrypted, out[cipher.len() - 1] read and the padding cut off by resize.
decrypt_bytes(key, data) ==
    LET quotients == Len(data) \div BlockBytes
        remainder == Len(data) % BlockBytes
        blocks == [i \in 0..(quotients - 1) |-> block_decrypt(key, BlockOf(data, i))]
        out == [n \in 1..(BlockBytes * quotients) |-> blocks[(n - 1) \div BlockBytes][((n - 1) % BlockBytes) + 1]]
    IN  IF remainder # 0 THEN Panic("InvalidCipherLength")
        ELSE IF Len(data) = 0 THEN Panic("IndexOutOfBounds")
        ELSE IF out[Len(data)] > Len(data) THEN Panic("LengthUnderflow")
        ELSE [status |-> "ok", data |-> SubSeq(out, 1, Len(data) - out[Len(data)])]

\* ---- the plaintexts ----
PlainKinds == {"mixed", "all_0x10", "all_0x01"}

PlainText(kind, len) ==
    [i \in 1..len |-> IF kind = "mixed" THEN Filler(i) ELSE IF kind = "all_0x10" THEN 16 ELSE 1]

EcbFrame == UNCHANGED <<codecVars, keygenVars, mulVars, addVars, onceVars, selVars, nafVars>>

InitEcb ==
    /\ CodecParked /\ KeyGenParked /\ MulParked /\ AddParked /\ OnceParked /\ SelectParked /\ NafParked
    /\ ecb_pc = "plain"
    /\ ecb_key \in 0..MaxKey
    /\ \E kind \in PlainKinds, len \in 0..MaxPlainLen : plain = PlainText(kind, len)
    /\ cipher = <<>>
    /\ recovered = None

EncryptBytes ==
    /\ ecb_pc = "plain"
    /\ cipher' = encrypt_bytes(ecb_key, plain)
    /\ ecb_pc' = "cipher"
    /\ UNCHANGED <<ecb_key, plain, recovered>>
    /\ EcbFrame

DecryptBytes ==
    /\ ecb_pc = "cipher"
    /\ recovered' = decrypt_bytes(ecb_key, cipher)
    /\ ecb_pc' = "done"
    /\ UNCHANGED <<ecb_key, plain, cipher>>
    /\ EcbFrame

NextEcb == EncryptBytes \/ DecryptBytes

SpecEcb == InitEcb /\ [][NextEcb]_vars

(***************************************************************************)
(* Claims about SM4-ECB                                                    *)
(***************************************************************************)

\* The plaintext block behind the last block of the ciphertext.
LastPlainBlock == block_decrypt(ecb_key, BlockOf(cipher, (Len(cipher) \div BlockBytes) - 1))

\* C14: for every key and every plaintext p, of length 0 and of a multiple
\* of 16 too, encrypt_bytes(p) is 16 * (len(p) div 16 + 1) bytes long, its
\* last block is padded with 16 - len(p) mod 16 bytes of that value, and
\* decrypt_bytes(encrypt_bytes(p)) = p.
EcbRoundTrip ==
    /\ ecb_pc \in {"cipher", "done"} =>
        /\ Len(cipher) = 16 * ((Len(plain) \div 16) + 1)
        /\ \A i \in ((Len(plain) % 16) + 1)..16 : LastPlainBlock[i] = 16 - (Len(plain) % 16)
        /\ \A i \in 1..(Len(plain) % 16) : LastPlainBlock[i] = plain[16 * (Len(plain) \div 16) + i]
    /\ ecb_pc = "done" => recovered = [status |-> "ok", data |-> plain]

\* A plaintext of two full blocks that ends in the padding byte 0x10 has
\* made the round trip, through a ciphertext of three blocks that is not
\* the padded plaintext itself.
EcbRoundTripWitness ==
    /\ ecb_pc = "done"
    /\ Len(plain) = 32
    /\ plain[32] = 16
    /\ Len(cipher) = 48
    /\ SubSeq(cipher, 1, 32) # plain
    /\ recovered = [status |-> "ok", data |-> plain]

=============================================================================
